---------------------------- MODULE Spec2Model ----------------------------
(***************************************************************************)
(* The collection iterator of vt-go (iterator.go): the cursor codec, the   *)
(* producer goroutine (iterate), the buffered delivery channel, the        *)
(* unbuffered cancellation channel and the consumer-side API (Next, Get,   *)
(* Cursor, Close, Error).                                                  *)
(*                                                                         *)
(* Strings are sequences of byte values.  Objects are the naturals 1..n in *)
(* collection order, 0 is the nil object.                                  *)
(***************************************************************************)
EXTENDS Integers, Sequences, FiniteSets, TLC

-----------------------------------------------------------------------------
(* Bounds of the model.                                                    *)

\* Longest link of the records the codec is applied to in SpecCodec.
MaxLinkLen == 2
\* Largest offset of the records the codec is applied to in SpecCodec.
MaxCodecOffset == 11
\* Backends have at most MaxPages pages of at most MaxPageSize objects each
\* (and one more backend, Saturating, that fills the delivery channel).
MaxPages == 2
MaxPageSize == 2
\* The limit option is 0 (none) or 1..MaxLimit.
MaxLimit == 2
\* The consumer calls Close() at most MaxCloses times on one iterator.
MaxCloses == 2
\* The consumer builds a further iterator from Cursor() only when at most
\* MaxResumeLeft objects of the collection follow the current one.
MaxResumeLeft == 4

-----------------------------------------------------------------------------
(* Byte-string helpers.                                                    *)

\* The ASCII bytes of the text pieces encoding/json writes for a cursor.
QUOTE == 34
BACKSLASH == 92
LinkKey == <<123, 34, 76, 105, 110, 107, 34, 58>>
OffsetKey == <<44, 34, 79, 102, 102, 115, 101, 116, 34, 58>>
RBRACE == 125
NEWLINE == 10

HexDigit(v) == IF v < 10 THEN 48 + v ELSE 97 + (v - 10)

HexValue(b) ==
    IF b >= 48 /\ b <= 57 THEN b - 48
    ELSE IF b >= 97 /\ b <= 102 THEN b - 97 + 10
    ELSE IF b >= 65 /\ b <= 70 THEN b - 65 + 10
    ELSE -1

IsCont(b) == b >= 128 /\ b <= 191

\* Length of the valid UTF-8 sequence that starts at s[i], 0 when s[i] starts
\* no valid sequence (utf8.DecodeRuneInString gives RuneError, size 1).
RuneLen(s, i) ==
    LET b == s[i]
        n == Len(s) - i + 1
        c(k) == n >= k /\ IsCont(s[i + k - 1])
    IN  IF b < 128 THEN 1
        ELSE IF b >= 194 /\ b <= 223 /\ c(2) THEN 2
        ELSE IF b = 224 /\ n >= 3 /\ s[i+1] >= 160 /\ s[i+1] <= 191 /\ c(3) THEN 3
        ELSE IF b = 237 /\ n >= 3 /\ s[i+1] >= 128 /\ s[i+1] <= 159 /\ c(3) THEN 3
        ELSE IF b >= 225 /\ b <= 239 /\ b # 237 /\ c(2) /\ c(3) THEN 3
        ELSE IF b = 240 /\ n >= 4 /\ s[i+1] >= 144 /\ s[i+1] <= 191 /\ c(3) /\ c(4) THEN 4
        ELSE IF b = 244 /\ n >= 4 /\ s[i+1] >= 128 /\ s[i+1] <= 143 /\ c(3) /\ c(4) THEN 4
        ELSE IF b >= 241 /\ b <= 243 /\ c(2) /\ c(3) /\ c(4) THEN 4
        ELSE 0

RECURSIVE ValidUTF8From(_, _)
ValidUTF8From(s, i) ==
    IF i > Len(s) THEN TRUE
    ELSE RuneLen(s, i) > 0 /\ ValidUTF8From(s, i + RuneLen(s, i))

ValidUTF8(s) == ValidUTF8From(s, 1)

\* \u00XX escape of an ASCII byte.
UEscape(b) == <<BACKSLASH, 117, 48, 48, HexDigit(b \div 16), HexDigit(b % 16)>>

\* encoding/json string escaping (HTML escaping on, the Encoder default): the
\* quote and the backslash get a backslash, control bytes and < > & become
\* \u00XX (\n \r \t their short forms), an invalid UTF-8 byte becomes the
\* escape of U+FFFD, U+2028 and U+2029 are escaped, every other rune is copied.
RECURSIVE JSONEscape(_, _)
JSONEscape(s, i) ==
    IF i > Len(s) THEN <<>>
    ELSE LET b == s[i]
             n == RuneLen(s, i)
         IN  IF b < 128 THEN
                 (IF b = QUOTE \/ b = BACKSLASH THEN <<BACKSLASH, b>>
                  ELSE IF b = 10 THEN <<BACKSLASH, 110>>
                  ELSE IF b = 13 THEN <<BACKSLASH, 114>>
                  ELSE IF b = 9 THEN <<BACKSLASH, 116>>
                  ELSE IF b < 32 \/ b = 60 \/ b = 62 \/ b = 38 THEN UEscape(b)
                  ELSE <<b>>) \o JSONEscape(s, i + 1)
             ELSE IF n = 0 THEN
                 <<BACKSLASH, 117, 102, 102, 102, 100>> \o JSONEscape(s, i + 1)
             ELSE IF n = 3 /\ b = 226 /\ s[i+1] = 128 /\ s[i+2] \in {168, 169} THEN
                 <<BACKSLASH, 117, 50, 48, 50, HexDigit(s[i+2] - 160)>>
                     \o JSONEscape(s, i + 3)
             ELSE SubSeq(s, i, i + n - 1) \o JSONEscape(s, i + n)

\* strconv's decimal digits of a natural number.
RECURSIVE Itoa(_)
Itoa(n) == IF n < 10 THEN <<48 + n>> ELSE Itoa(n \div 10) \o <<48 + (n % 10)>>

\* json.NewEncoder(w).Encode(c) for a cursor: one object, then a newline.
JSONEncode(c) ==
    LinkKey \o <<QUOTE>> \o JSONEscape(c.Link, 1) \o <<QUOTE>>
        \o OffsetKey \o Itoa(c.Offset) \o <<RBRACE, NEWLINE>>

\* UTF-8 bytes of a code point of the basic plane.
UTF8Of(cp) ==
    IF cp < 128 THEN <<cp>>
    ELSE IF cp < 2048 THEN <<192 + (cp \div 64), 128 + (cp % 64)>>
    ELSE <<224 + (cp \div 4096), 128 + ((cp \div 64) % 64), 128 + (cp % 64)>>

\* The string literal whose opening quote is at s[i-1]: the decoded bytes and
\* the index after the closing quote; ok is FALSE on a malformed literal.
RECURSIVE JSONUnquote(_, _, _)
JSONUnquote(s, i, acc) ==
    IF i > Len(s) THEN [ok |-> FALSE, val |-> acc, next |-> i]
    ELSE IF s[i] = QUOTE THEN [ok |-> TRUE, val |-> acc, next |-> i + 1]
    ELSE IF s[i] < 32 THEN [ok |-> FALSE, val |-> acc, next |-> i]
    ELSE IF s[i] # BACKSLASH THEN JSONUnquote(s, i + 1, Append(acc, s[i]))
    ELSE IF i + 1 > Len(s) THEN [ok |-> FALSE, val |-> acc, next |-> i]
    ELSE LET e == s[i + 1]
         IN  IF e \in {QUOTE, BACKSLASH, 47} THEN JSONUnquote(s, i + 2, Append(acc, e))
             ELSE IF e = 110 THEN JSONUnquote(s, i + 2, Append(acc, 10))
             ELSE IF e = 114 THEN JSONUnquote(s, i + 2, Append(acc, 13))
             ELSE IF e = 116 THEN JSONUnquote(s, i + 2, Append(acc, 9))
             ELSE IF e = 98 THEN JSONUnquote(s, i + 2, Append(acc, 8))
             ELSE IF e = 102 THEN JSONUnquote(s, i + 2, Append(acc, 12))
             ELSE IF e = 117 /\ i + 5 <= Len(s)
                        /\ \A k \in 2..5 : HexValue(s[i + k]) >= 0 THEN
                 JSONUnquote(s, i + 6,
                     acc \o UTF8Of(4096 * HexValue(s[i+2]) + 256 * HexValue(s[i+3])
                                   + 16 * HexValue(s[i+4]) + HexValue(s[i+5])))
             ELSE [ok |-> FALSE, val |-> acc, next |-> i]

\* The run of decimal digits at s[i]: its value and the index after it.
RECURSIVE Atoi(_, _, _)
Atoi(s, i, acc) ==
    IF i <= Len(s) /\ s[i] >= 48 /\ s[i] <= 57
    THEN Atoi(s, i + 1, 10 * acc + (s[i] - 48))
    ELSE [val |-> acc, next |-> i]

HasAt(s, i, piece) ==
    /\ i + Len(piece) - 1 <= Len(s)
    /\ SubSeq(s, i, i + Len(piece) - 1) = piece

\* json.NewDecoder(r).Decode(&c) on the text the encoder writes: the two
\* fields are stored into c; any other text is a decode error and leaves c.
JSONDecode(c, s) ==
    LET bad == [err |-> TRUE, c |-> c]
    IN  IF ~HasAt(s, 1, LinkKey \o <<QUOTE>>) THEN bad
        ELSE LET l == JSONUnquote(s, Len(LinkKey) + 2, <<>>)
             IN  IF ~l.ok \/ ~HasAt(s, l.next, OffsetKey) THEN bad
                 ELSE LET o == Atoi(s, l.next + Len(OffsetKey), 0)
                      IN  IF o.next = l.next + Len(OffsetKey)
                                 \/ ~HasAt(s, o.next, <<RBRACE>>) THEN bad
                          ELSE [err |-> FALSE,
                                c |-> [Link |-> l.val, Offset |-> o.val]]

\* compress/flate, kept lossless and reversible: the stream is written here
\* as one final stored block (header byte, LEN, NLEN, the bytes themselves).
Deflate(data) ==
    LET n == Len(data)
    IN  <<1, n % 256, n \div 256, 255 - (n % 256), 255 - (n \div 256)>> \o data

Inflate(z) ==
    IF Len(z) < 5 \/ z[1] # 1 \/ z[2] + z[4] # 255 \/ z[3] + z[5] # 255
          \/ Len(z) # 5 + z[2] + 256 * z[3]
    THEN [err |-> TRUE, data |-> <<>>]
    ELSE [err |-> FALSE, data |-> SubSeq(z, 6, Len(z))]

\* The URL-safe base64 alphabet: A-Z a-z 0-9 - _
B64Char(v) ==
    IF v < 26 THEN 65 + v
    ELSE IF v < 52 THEN 97 + (v - 26)
    ELSE IF v < 62 THEN 48 + (v - 52)
    ELSE IF v = 62 THEN 45 ELSE 95

B64Value(ch) ==
    IF ch >= 65 /\ ch <= 90 THEN ch - 65
    ELSE IF ch >= 97 /\ ch <= 122 THEN ch - 97 + 26
    ELSE IF ch >= 48 /\ ch <= 57 THEN ch - 48 + 52
    ELSE IF ch = 45 THEN 62
    ELSE IF ch = 95 THEN 63
    ELSE -1

\* The byte at position k of bs, 0 past its end.
ByteAt(bs, k) == IF k <= Len(bs) THEN bs[k] ELSE 0

\* base64.RawURLEncoding: three bytes to four characters, no padding, so a
\* last group of one or two bytes gives two or three characters.
B64Encode(bs) ==
    LET n == Len(bs)
        m == (n \div 3) * 4 + (IF n % 3 = 0 THEN 0 ELSE (n % 3) + 1)
        sextet(k) ==
            LET g == 3 * ((k - 1) \div 4)
                r == (k - 1) % 4
            IN  IF r = 0 THEN ByteAt(bs, g + 1) \div 4
                ELSE IF r = 1 THEN
                    (ByteAt(bs, g + 1) % 4) * 16 + ByteAt(bs, g + 2) \div 16
                ELSE IF r = 2 THEN
                    (ByteAt(bs, g + 2) % 16) * 4 + ByteAt(bs, g + 3) \div 64
                ELSE ByteAt(bs, g + 3) % 64
    IN  [k \in 1..m |-> B64Char(sextet(k))]

B64DecodeValues(vs) ==
    LET m == Len(vs)
        n == (m \div 4) * 3 + (IF m % 4 = 0 THEN 0 ELSE (m % 4) - 1)
        byte(j) ==
            LET g == 4 * ((j - 1) \div 3)
                r == (j - 1) % 3
            IN  IF r = 0 THEN ByteAt(vs, g + 1) * 4 + ByteAt(vs, g + 2) \div 16
                ELSE IF r = 1 THEN
                    (ByteAt(vs, g + 2) % 16) * 16 + ByteAt(vs, g + 3) \div 4
                ELSE (ByteAt(vs, g + 3) % 4) * 64 + ByteAt(vs, g + 4)
    IN  [j \in 1..n |-> byte(j)]

B64Decode(s) ==
    IF (Len(s) % 4 = 1) \/ (\E k \in 1..Len(s) : B64Value(s[k]) < 0)
    THEN [err |-> TRUE, data |-> <<>>]
    ELSE [err |-> FALSE,
          data |-> B64DecodeValues([k \in 1..Len(s) |-> B64Value(s[k])])]

-----------------------------------------------------------------------------
(* The cursor codec.                                                       *)

EmptyCursor == [Link |-> <<>>, Offset |-> 0]

\* encode without its first three lines.
encodeAlways(c) == B64Encode(Deflate(JSONEncode(c)))

\* cursor.encode
encode(c) ==
    IF c.Link = <<>> THEN <<>>
    ELSE B64Encode(Deflate(JSONEncode(c)))

\* cursor.decode: the error flag and the receiver after the call.
decode(c, s) ==
    IF s = <<>> THEN [err |-> FALSE, c |-> EmptyCursor]
    ELSE LET b == B64Decode(s)
             z == IF b.err THEN [err |-> TRUE, data |-> <<>>] ELSE Inflate(b.data)
         IN  IF z.err THEN [err |-> TRUE, c |-> c]
             ELSE JSONDecode(c, z.data)

-----------------------------------------------------------------------------
(* The backend behind client.GetData: a finite collection served in pages. *)

VARIABLES
    sizes,      \* the backend: sizes[k] is the number of objects of page k
    \* the fields of Iterator
    ch,         \* the buffered delivery channel: the items queued in it
    chClosed,   \* close(it.ch) has run
    done,       \* the unbuffered cancellation channel: "open" or "closed"
    next, err, closed, limit, count, cursor, links, meta,
    \* the producer goroutine, iterate(skip)
    ppc,        \* the statement it is at
    skip, sent, objects, i,
    item,       \* the argument of the sendToChannel call in progress
    sleeping,   \* inside time.Sleep between two trySendToChannel calls
    \* the consumer goroutine
    cpc,        \* "idle", "recv" (Next blocked on <-it.ch), "closeSend" (Close
                \* blocked on it.done <- true), "none" (no iterator was returned)
    fault,      \* the run-time panic that ended the program, or NoFault
    \* what happened so far to the current iterator
    got,        \* the objects Get() returned after each Next() that returned true
    lastNext,   \* what the latest Next() returned: "none", "true", "false"
    pulled,     \* Next() has been called
    fetches,    \* calls of client.GetData
    failedAt,   \* which call of client.GetData failed (the first is 1), 0 if
                \* none did; a fresh iterator's k-th call asks for page k
    closes,     \* calls of Close()
    doneSends,  \* values passed over it.done
    given,      \* the WithCursor token the iterator was built with
    base,       \* the number of objects of the collection that precede the
                \* position the iterator was asked to start at
    resumed,    \* the iterator was built from the Cursor() of an earlier one
    newErr,     \* the error newIterator returned
    \* the codec applied to a record (SpecCodec)
    rec, tok, dec, phase

itVars == <<ch, chClosed, done, next, err, closed, limit, count, cursor, links, meta>>
prodVars == <<ppc, skip, sent, objects, i, item, sleeping>>
histVars == <<got, lastNext, pulled, fetches, failedAt, closes, doneSends, given, base,
              resumed, newErr>>
codecVars == <<rec, tok, dec, phase>>
vars == <<sizes, itVars, prodVars, cpc, fault, histVars, codecVars>>

\* make(chan interface{}, 50)
ChanCap == 50

NoFault == "none"
NoErr == [kind |-> "nil", page |-> 0]
FetchErr(k) == [kind |-> "fetch", page |-> k]
DecodeErr == [kind |-> "decode", page |-> 0]

\* The URL of page k: ?a&p=k
URL(k) == <<63, 97, 38, 112, 61, 48 + k>>

RECURSIVE SumTo(_, _)
SumTo(sz, k) == IF k = 0 THEN 0 ELSE sz[k] + SumTo(sz, k - 1)

\* The number of objects on the pages before page k.
Before(sz, k) == SumTo(sz, k - 1)
Total(sz) == SumTo(sz, Len(sz))

\* The objects of page k, in order.
Page(sz, k) == [j \in 1..sz[k] |-> Before(sz, k) + j]

\* The page a link asks for, 0 when it is the link of no page.
PageOf(sz, link) ==
    IF \E k \in 1..Len(sz) : URL(k) = link
    THEN CHOOSE k \in 1..Len(sz) : URL(k) = link
    ELSE 0

\* resp.Links of page k: the last page has an empty next link.
LinksOf(sz, k) ==
    [Self |-> URL(k), Next |-> IF k < Len(sz) THEN URL(k + 1) ELSE <<>>]

NoLinks == [Self |-> <<>>, Next |-> <<>>]

ObjItem(o, c) == [isErr |-> FALSE, object |-> o, cursor |-> c, err |-> NoErr]
ErrItem(e) == [isErr |-> TRUE, object |-> 0, cursor |-> EmptyCursor, err |-> e]
NoItem == ObjItem(0, EmptyCursor)

-----------------------------------------------------------------------------
(* Construction.                                                           *)

\* The backends: every shape within the bounds, and one whose first two
\* pages hold one object more than the delivery channel.
RECURSIVE Shapes(_)
Shapes(n) ==
    IF n = 0 THEN {<<>>}
    ELSE LET shorter == Shapes(n - 1)
         IN  shorter \cup {Append(s, m) : s \in {t \in shorter : Len(t) = n - 1},
                                          m \in 0..MaxPageSize}

Saturating == <<ChanCap \div 2, ChanCap - (ChanCap \div 2) + 1, 1>>

\* One page that holds two objects more than the delivery channel.
Overfull == <<ChanCap + 2>>

Backends == (Shapes(MaxPages) \ {<<>>}) \cup {Saturating, Overfull}

\* newIterator without the test of the error of decode.
newIteratorAnyToken(tokn) ==
    IF tokn # <<>> THEN
        LET d == decode(EmptyCursor, tokn)
        IN  [err |-> NoErr, Next |-> d.c.Link, skip |-> d.c.Offset]
    ELSE [err |-> NoErr, Next |-> URL(1), skip |-> 0]

\* newIterator, up to the go statement: the error it returns, it.links.Next
\* and the skip handed to iterate.  (The batch size, filter and descriptor
\* options only shape the first URL, which is URL(1) here.)
newIterator(tokn) ==
    IF tokn # <<>> THEN
        LET d == decode(EmptyCursor, tokn)
        IN  IF d.err THEN [err |-> DecodeErr, Next |-> <<>>, skip |-> 0]
            ELSE [err |-> NoErr, Next |-> d.c.Link, skip |-> d.c.Offset]
    ELSE [err |-> NoErr, Next |-> URL(1), skip |-> 0]

\* A token that is no base64 text.
Malformed == <<33>>

\* Base64 text that is no deflate stream, and a deflate stream that holds no
\* JSON object of a cursor.
NotDeflate == B64Encode(<<0, 0>>)
NotJSON == B64Encode(Deflate(<<123>>))

\* The WithCursor tokens an iterator over sz is first built with: none,
\* malformed ones, and those for the end of a page or one object past it,
\* which no Cursor() of this backend returns (Resume takes those).
Tokens(sz) ==
    IF sz \in {Saturating, Overfull} THEN {<<>>}
    ELSE {<<>>, Malformed, NotDeflate, NotJSON}
         \cup UNION {{encode([Link |-> URL(k), Offset |-> o]) :
                         o \in {sz[k], sz[k] + 1}} : k \in 1..Len(sz)}

Limits(sz, tokn) ==
    IF sz = Overfull THEN {1}
    ELSE IF sz = Saturating \/ tokn # <<>> THEN {0}
    ELSE 0..MaxLimit

\* What a token asks for, as a number of objects to leave out.
BaseOf(sz, tokn) ==
    LET d == decode(EmptyCursor, tokn)
    IN  IF tokn = <<>> \/ d.err \/ PageOf(sz, d.c.Link) = 0 THEN 0
        ELSE Before(sz, PageOf(sz, d.c.Link)) + d.c.Offset

Init ==
    /\ sizes \in Backends
    /\ given \in Tokens(sizes)
    /\ limit \in Limits(sizes, given)
    /\ \E n \in {newIterator(given)} :
           /\ newErr = n.err
           /\ links = [Self |-> <<>>, Next |-> n.Next]
           /\ skip = n.skip
           /\ ppc = IF n.err = NoErr THEN "loop" ELSE "none"
           /\ cpc = IF n.err = NoErr THEN "idle" ELSE "none"
    /\ cursor = given
    /\ ch = <<>> /\ chClosed = FALSE /\ done = "open"
    /\ next = 0 /\ err = NoErr /\ closed = FALSE /\ count = 0 /\ meta = 0
    /\ sent = 0 /\ objects = <<>> /\ i = 0 /\ item = NoItem /\ sleeping = FALSE
    /\ fault = NoFault
    /\ got = <<>> /\ lastNext = "none" /\ pulled = FALSE
    /\ fetches = 0 /\ failedAt = 0 /\ closes = 0 /\ doneSends = 0
    /\ base = BaseOf(sizes, given)
    /\ resumed = FALSE
    /\ rec = EmptyCursor /\ tok = <<>> /\ dec = [err |-> FALSE, c |-> EmptyCursor]
    /\ phase = "off"

Running == fault = NoFault

-----------------------------------------------------------------------------
(* The producer goroutine: iterate(skip).                                  *)

\* The condition of the outer loop.
LoopGoesOn(lim, snt) == lim = 0 \/ snt < lim

\* for it.limit == 0 || sent < it.limit
LoopCond ==
    /\ Running /\ ppc = "loop"
    /\ ppc' = IF LoopGoesOn(limit, sent) THEN "getMoreObjects" ELSE "setClosed"
    /\ UNCHANGED <<sizes, itVars, skip, sent, objects, i, item, sleeping, cpc,
                   fault, histVars, codecVars>>

\* getMoreObjects returns a page: it.links and it.meta are replaced.
getMoreObjectsOk ==
    /\ Running /\ ppc = "getMoreObjects"
    /\ PageOf(sizes, links.Next) # 0
    /\ LET k == PageOf(sizes, links.Next)
       IN  /\ objects' = Page(sizes, k)
           /\ links' = LinksOf(sizes, k)
           /\ meta' = k
    /\ fetches' = fetches + 1
    /\ ppc' = "slice"
    /\ UNCHANGED <<sizes, ch, chClosed, done, next, err, closed, limit, count,
                   cursor, skip, sent, i, item, sleeping, cpc, fault, got,
                   lastNext, pulled, failedAt, closes, doneSends, given, base,
                   resumed, newErr, codecVars>>

\* getMoreObjects returns (nil, err): the error is to be sent.
getMoreObjectsErr ==
    /\ Running /\ ppc = "getMoreObjects"
    /\ item' = ErrItem(FetchErr(PageOf(sizes, links.Next)))
    /\ failedAt' = fetches + 1
    /\ objects' = <<>>
    /\ fetches' = fetches + 1
    /\ ppc' = "sendErr"
    /\ UNCHANGED <<sizes, itVars, skip, sent, i, sleeping, cpc, fault, got,
                   lastNext, pulled, closes, doneSends, given, base, resumed,
                   newErr, codecVars>>

Sending == ppc \in {"sendErr", "sendObj"} /\ ~sleeping

\* case <-it.done returning retry for stop: the value of Close() is taken and
\* sendToChannel sleeps and tries again.
trySendStopRetries ==
    /\ Running /\ Sending
    /\ cpc = "closeSend" /\ done = "open"
    /\ cpc' = "idle"
    /\ doneSends' = doneSends + 1
    /\ sleeping' = TRUE
    /\ UNCHANGED <<sizes, itVars, ppc, skip, sent, objects, i, item, fault,
                   got, lastNext, pulled, fetches, failedAt, closes, given, base,
                   resumed, newErr, codecVars>>

\* trySendToChannel, case <-it.done: a Close() is blocked on its send.
trySendStop ==
    /\ Running /\ Sending
    /\ cpc = "closeSend" /\ done = "open"
    /\ cpc' = "idle"
    /\ doneSends' = doneSends + 1
    /\ ppc' = "setClosed"
    /\ UNCHANGED <<sizes, itVars, skip, sent, objects, i, item, sleeping, fault,
                   got, lastNext, pulled, fetches, failedAt, closes, given, base,
                   resumed, newErr, codecVars>>

\* trySendToChannel, case it.ch <- item: the channel has room.
trySendOk ==
    /\ Running /\ Sending
    /\ Len(ch) < ChanCap
    /\ ch' = Append(ch, item)
    /\ IF ppc = "sendErr"
       THEN ppc' = "slice" /\ UNCHANGED <<sent, i>>
       ELSE ppc' = "range" /\ sent' = sent + 1 /\ i' = i + 1
    /\ UNCHANGED <<sizes, chClosed, done, next, err, closed, limit, count, cursor,
                   links, meta, skip, objects, item, sleeping, cpc, fault,
                   histVars, codecVars>>

\* sendToChannel taking retry for ok: the item is dropped and counted.
trySendRetryDrops ==
    /\ Running /\ Sending
    /\ ~(cpc = "closeSend" /\ done = "open")
    /\ Len(ch) >= ChanCap
    /\ IF ppc = "sendErr"
       THEN ppc' = "slice" /\ UNCHANGED <<sent, i>>
       ELSE ppc' = "range" /\ sent' = sent + 1 /\ i' = i + 1
    /\ UNCHANGED <<sizes, itVars, skip, objects, item, sleeping, cpc, fault,
                   histVars, codecVars>>

\* trySendToChannel, default: neither is ready; sendToChannel sleeps.
trySendRetry ==
    /\ Running /\ Sending
    /\ ~(cpc = "closeSend" /\ done = "open")
    /\ Len(ch) >= ChanCap
    /\ sleeping' = TRUE
    /\ UNCHANGED <<sizes, itVars, ppc, skip, sent, objects, i, item, cpc, fault,
                   histVars, codecVars>>

\* time.Sleep(10 * time.Millisecond) returns.
Wake ==
    /\ Running /\ sleeping
    /\ sleeping' = FALSE
    /\ UNCHANGED <<sizes, itVars, ppc, skip, sent, objects, i, item, cpc, fault,
                   histVars, codecVars>>

\* The page as fetched, nothing dropped.
SlicedNothing(objs, skp) == objs

\* objects[skip:]
Sliced(objs, skp) == SubSeq(objs, skp + 1, Len(objs))

\* objects = objects[skip:], which panics when skip > len(objects).
Slice ==
    /\ Running /\ ppc = "slice"
    /\ IF skip > Len(objects)
       THEN /\ fault' = "slice bounds out of range"
            /\ UNCHANGED <<ppc, objects, i>>
       ELSE /\ objects' = Sliced(objects, skip)
            /\ i' = 0
            /\ ppc' = "range"
            /\ UNCHANGED fault
    /\ UNCHANGED <<sizes, itVars, skip, sent, item, sleeping, cpc, histVars,
                   codecVars>>

\* The offset counted in the page as sliced: i + 1 for skip + i + 1.
TaggedFromSlice(objs, idx, lnk, skp) ==
    ObjItem(objs[idx + 1],
            IF idx = Len(objs) - 1
            THEN [Link |-> lnk.Next, Offset |-> 0]
            ELSE [Link |-> lnk.Self, Offset |-> idx + 1])

\* The collectionObject built for objects[i].
Tagged(objs, idx, lnk, skp) ==
    ObjItem(objs[idx + 1],
            IF idx = Len(objs) - 1
            THEN [Link |-> lnk.Next, Offset |-> 0]
            ELSE [Link |-> lnk.Self, Offset |-> skp + idx + 1])

\* The test on it.links.Next turned round: stop while there is a next page.
AfterRangeStopsEarly(objs, lnk) ==
    IF Len(objs) = 0 \/ lnk.Next # <<>> THEN "setClosed" ELSE "loop"

\* The test without len(objects) == 0: after a failed fetch the loop goes
\* round again and asks for the same page.
AfterRangeRetries(objs, lnk) ==
    IF lnk.Next = <<>> THEN "setClosed" ELSE "loop"

\* The break after the range loop left out: the outer loop always goes round.
AfterRangeNoBreak(objs, lnk) == "loop"

\* What follows the range loop: leave the outer loop, or go round it again.
AfterRange(objs, lnk) ==
    IF Len(objs) = 0 \/ lnk.Next = <<>> THEN "setClosed" ELSE "loop"

\* for i, object := range objects, and the statements after the loop.
Range ==
    /\ Running /\ ppc = "range"
    /\ IF i < Len(objects)
       THEN /\ item' = Tagged(objects, i, links, skip)
            /\ ppc' = "sendObj"
            /\ UNCHANGED skip
       ELSE /\ ppc' = AfterRange(objects, links)
            /\ skip' = IF AfterRange(objects, links) = "loop" THEN 0 ELSE skip
            /\ UNCHANGED item
    /\ UNCHANGED <<sizes, itVars, sent, objects, i, sleeping, cpc, fault,
                   histVars, codecVars>>

\* The producer ending without it.closed = true.
SetClosedForgets ==
    /\ Running /\ ppc = "setClosed"
    /\ ppc' = "closeCh"
    /\ UNCHANGED <<sizes, itVars, skip, sent, objects, i, item, sleeping, cpc,
                   fault, histVars, codecVars>>

\* it.closed = true
SetClosed ==
    /\ Running /\ ppc = "setClosed"
    /\ closed' = TRUE
    /\ ppc' = "closeCh"
    /\ UNCHANGED <<sizes, ch, chClosed, done, next, err, limit, count, cursor,
                   links, meta, skip, sent, objects, i, item, sleeping, cpc,
                   fault, histVars, codecVars>>

\* close(it.ch), which panics on a channel that is closed already.
CloseCh ==
    /\ Running /\ ppc = "closeCh"
    /\ IF chClosed
       THEN fault' = "close of closed channel" /\ UNCHANGED <<chClosed, ppc>>
       ELSE chClosed' = TRUE /\ ppc' = "closeDone" /\ UNCHANGED fault
    /\ UNCHANGED <<sizes, ch, done, next, err, closed, limit, count, cursor,
                   links, meta, skip, sent, objects, i, item, sleeping, cpc,
                   histVars, codecVars>>

\* close(it.done), which panics on a channel that is closed already.
CloseDone ==
    /\ Running /\ ppc = "closeDone"
    /\ IF done = "closed"
       THEN fault' = "close of closed channel" /\ UNCHANGED <<done, ppc>>
       ELSE done' = "closed" /\ ppc' = "exit" /\ UNCHANGED fault
    /\ UNCHANGED <<sizes, ch, chClosed, next, err, closed, limit, count, cursor,
                   links, meta, skip, sent, objects, i, item, sleeping, cpc,
                   histVars, codecVars>>

-----------------------------------------------------------------------------
(* The consumer goroutine.                                                 *)

\* The limit test with > for ==.
LimitReachedLate(lim, cnt) == lim > 0 /\ cnt > lim

\* it.limit > 0 && it.count == it.limit
LimitReached(lim, cnt) == lim > 0 /\ cnt = lim

\* Next(), up to the receive: false at once when the limit is reached.
Next ==
    /\ Running /\ cpc = "idle"
    /\ pulled' = TRUE
    /\ IF LimitReached(limit, count)
       THEN lastNext' = "false" /\ UNCHANGED cpc
       ELSE cpc' = "recv" /\ UNCHANGED lastNext
    /\ UNCHANGED <<sizes, itVars, prodVars, fault, got, fetches, failedAt, closes,
                   doneSends, given, base, resumed, newErr, codecVars>>

\* The type switch without it.err = v.
ErrOfKept(v, old) == old

\* it.err after the type switch on a received item v.
ErrOf(v, old) == IF v.isErr THEN v.err ELSE old

\* return ok && it.next != nil
NextResult(ok, nxt) == IF ok /\ nxt # 0 THEN "true" ELSE "false"

\* item, ok := <-it.ch and the rest of Next(): an object, an error, or the
\* zero value of a closed and drained channel.
NextRecv ==
    /\ Running /\ cpc = "recv"
    /\ IF ch # <<>>
       THEN /\ ch' = Tail(ch)
            /\ err' = ErrOf(Head(ch), err)
            /\ IF Head(ch).isErr
               THEN /\ next' = 0
                    /\ UNCHANGED <<cursor, count>>
               ELSE /\ next' = Head(ch).object
                    /\ cursor' = encode(Head(ch).cursor)
                    /\ count' = count + 1
            /\ lastNext' = NextResult(TRUE, next')
       ELSE /\ chClosed
            /\ lastNext' = NextResult(FALSE, next)
            /\ UNCHANGED <<ch, next, err, cursor, count>>
    /\ got' = IF lastNext' = "true" THEN Append(got, next') ELSE got
    /\ cpc' = "idle"
    /\ UNCHANGED <<sizes, chClosed, done, closed, limit, links, meta, prodVars,
                   fault, pulled, fetches, failedAt, closes, doneSends, given,
                   base, resumed, newErr, codecVars>>

\* What the unsynchronised read of it.closed in Close() may give: the value
\* in memory, or still false while the producer's store of line 318 is not
\* yet ordered by the lock of close(it.ch) and the consumer has stored nothing
\* itself.
ClosedReads ==
    IF closed /\ closes = 0 /\ ppc = "closeCh" THEN {TRUE, FALSE} ELSE {closed}

\* Close(), up to the send: nothing when it.closed is read as set.
Close ==
    /\ Running /\ cpc = "idle"
    /\ closes < MaxCloses
    /\ closes' = closes + 1
    /\ \E seen \in ClosedReads :
           IF ~seen
           THEN closed' = TRUE /\ cpc' = "closeSend"
           ELSE UNCHANGED <<closed, cpc>>
    /\ UNCHANGED <<sizes, ch, chClosed, done, next, err, limit, count, cursor,
                   links, meta, prodVars, fault, got, lastNext, pulled, fetches,
                   failedAt, doneSends, given, base, resumed, newErr, codecVars>>

\* it.done <- true on the closed channel: the send panics.
CloseSendPanic ==
    /\ Running /\ cpc = "closeSend"
    /\ done = "closed"
    /\ fault' = "send on closed channel"
    /\ UNCHANGED <<sizes, itVars, prodVars, cpc, histVars, codecVars>>

\* The consumer builds a new iterator with WithCursor(it.Cursor()) and the
\* same limit, right after a Next() that returned true, and goes on with it.
Resume ==
    /\ Running /\ cpc = "idle" /\ lastNext = "true"
    /\ Total(sizes) - next <= MaxResumeLeft
    /\ resumed' = TRUE
    /\ given' = cursor
    /\ base' = next
    /\ \E n \in {newIterator(cursor)} :
           /\ newErr' = n.err
           /\ links' = [Self |-> <<>>, Next |-> n.Next]
           /\ skip' = n.skip
           /\ ppc' = IF n.err = NoErr THEN "loop" ELSE "none"
           /\ cpc' = IF n.err = NoErr THEN "idle" ELSE "none"
    /\ ch' = <<>> /\ chClosed' = FALSE /\ done' = "open"
    /\ next' = 0 /\ err' = NoErr /\ closed' = FALSE /\ count' = 0 /\ meta' = 0
    /\ sent' = 0 /\ objects' = <<>> /\ i' = 0 /\ item' = NoItem
    /\ sleeping' = FALSE
    /\ got' = <<>> /\ lastNext' = "none" /\ pulled' = FALSE
    /\ fetches' = 0 /\ failedAt' = 0 /\ closes' = 0 /\ doneSends' = 0
    /\ UNCHANGED <<sizes, limit, cursor, fault, codecVars>>

\* A token that lost its last character on the way.
Damaged(tokn) == SubSeq(tokn, 1, Len(tokn) - 1)

\* The consumer builds a new iterator with WithCursor of a damaged copy of
\* it.Cursor(): newIterator returns what decode makes of it.
ResumeDamaged ==
    /\ Running /\ cpc = "idle" /\ lastNext = "true"
    /\ cursor # <<>>
    /\ Total(sizes) - next <= MaxResumeLeft
    /\ resumed' = FALSE
    /\ given' = Damaged(cursor)
    /\ cursor' = Damaged(cursor)
    /\ base' = BaseOf(sizes, Damaged(cursor))
    /\ \E n \in {newIterator(Damaged(cursor))} :
           /\ newErr' = n.err
           /\ links' = [Self |-> <<>>, Next |-> n.Next]
           /\ skip' = n.skip
           /\ ppc' = IF n.err = NoErr THEN "loop" ELSE "none"
           /\ cpc' = IF n.err = NoErr THEN "idle" ELSE "none"
    /\ ch' = <<>> /\ chClosed' = FALSE /\ done' = "open"
    /\ next' = 0 /\ err' = NoErr /\ closed' = FALSE /\ count' = 0 /\ meta' = 0
    /\ sent' = 0 /\ objects' = <<>> /\ i' = 0 /\ item' = NoItem
    /\ sleeping' = FALSE
    /\ got' = <<>> /\ lastNext' = "none" /\ pulled' = FALSE
    /\ fetches' = 0 /\ failedAt' = 0 /\ closes' = 0 /\ doneSends' = 0
    /\ UNCHANGED <<sizes, limit, fault, codecVars>>

Producer ==
    \/ LoopCond \/ getMoreObjectsOk \/ getMoreObjectsErr
    \/ trySendStop \/ trySendOk \/ trySendRetry \/ Wake
    \/ Slice \/ Range \/ SetClosed \/ CloseCh \/ CloseDone

Consumer ==
    Next \/ NextRecv \/ Close \/ CloseSendPanic \/ Resume \/ ResumeDamaged

Step == Producer \/ Consumer

Spec == Init /\ [][Step]_vars

-----------------------------------------------------------------------------
(* The codec applied to a record: encode, then decode into a receiver.     *)

CodecBytes == {97, 34, 38, 92, 10, 195, 169, 255}

RECURSIVE Strings(_)
Strings(n) ==
    IF n = 0 THEN {<<>>}
    ELSE LET shorter == Strings(n - 1)
         IN  shorter \cup {Append(s, b) : s \in {t \in shorter : Len(t) = n - 1},
                                          b \in CodecBytes}

Records == [Link : Strings(MaxLinkLen), Offset : 0..MaxCodecOffset]

Receivers == {EmptyCursor, [Link |-> <<97>>, Offset |-> 7]}

CodecInit ==
    /\ rec \in Records
    /\ dec \in [err : {FALSE}, c : Receivers]
    /\ tok = <<>>
    /\ phase = "start"
    /\ sizes = <<0>> /\ given = <<>> /\ limit = 0 /\ newErr = NoErr
    /\ links = NoLinks /\ skip = 0 /\ ppc = "none" /\ cpc = "none"
    /\ cursor = <<>>
    /\ ch = <<>> /\ chClosed = FALSE /\ done = "open"
    /\ next = 0 /\ err = NoErr /\ closed = FALSE /\ count = 0 /\ meta = 0
    /\ sent = 0 /\ objects = <<>> /\ i = 0 /\ item = NoItem /\ sleeping = FALSE
    /\ fault = NoFault
    /\ got = <<>> /\ lastNext = "none" /\ pulled = FALSE
    /\ fetches = 0 /\ failedAt = 0 /\ closes = 0 /\ doneSends = 0
    /\ base = 0 /\ resumed = FALSE

\* tok = rec.encode()
EncodeStep ==
    /\ phase = "start"
    /\ tok' = encode(rec)
    /\ phase' = "encoded"
    /\ UNCHANGED <<sizes, itVars, prodVars, cpc, fault, histVars, rec, dec>>

\* err = c.decode(tok), c being the receiver held in dec
DecodeStep ==
    /\ phase = "encoded"
    /\ dec' = decode(dec.c, tok)
    /\ phase' = "decoded"
    /\ UNCHANGED <<sizes, itVars, prodVars, cpc, fault, histVars, rec, tok>>

CodecStep == EncodeStep \/ DecodeStep

SpecCodec == CodecInit /\ [][CodecStep]_vars

-----------------------------------------------------------------------------
(* What the properties below speak of.                                     *)

\* The objects from+1 .. to of the collection, in order.
Items(from, to) == [j \in 1..(to - from) |-> from + j]

IsPrefix(s, t) == Len(s) <= Len(t) /\ \A j \in 1..Len(s) : s[j] = t[j]

\* The number of objects an iteration from the first page can reach: those
\* before the first empty page.
Visible(sz) ==
    IF \E k \in 1..Len(sz) : sz[k] = 0
    THEN Before(sz, CHOOSE k \in 1..Len(sz) :
                        sz[k] = 0 /\ \A h \in 1..(k - 1) : sz[h] > 0)
    ELSE Total(sz)

\* The number of objects that precede the iterator's first one: none without
\* a cursor, else what the cursor stands for.
StartOf == IF given = <<>> THEN 0 ELSE base

\* The page the iterator fetches first and the objects it drops from it.
FirstPage == IF given = <<>> THEN 1 ELSE PageOf(sizes, decode(EmptyCursor, given).c.Link)
FirstSkip == IF given = <<>> THEN 0 ELSE decode(EmptyCursor, given).c.Offset

\* The objects the first n fetches hand to the range loop.
Supplied(n) ==
    IF n = 0 THEN 0
    ELSE Before(sizes, FirstPage + n) - Before(sizes, FirstPage) - FirstSkip

\* The fewest fetches that supply at least want objects, all the pages from
\* the first one on when even they do not.
PagesNeeded(want) ==
    LET left == Len(sizes) - FirstPage + 1
    IN  IF \E n \in 0..left : Supplied(n) >= want
        THEN CHOOSE n \in 0..left :
                 Supplied(n) >= want /\ \A m \in 0..(n - 1) : Supplied(m) < want
        ELSE left

-----------------------------------------------------------------------------
(* C1 *)

C1_Pre ==
    /\ given = <<>> /\ limit = 0 /\ newErr = NoErr
    /\ \A k \in 1..Len(sizes) : sizes[k] > 0
    /\ failedAt = 0 /\ closes = 0

\* C1: a fresh iterator without limit over a backend whose pages are all
\* non-empty, with no fetch failure and no Close(), returns the objects of the
\* pages in page order and in-page order, each once: what Get() returned so
\* far is a prefix of the collection, and once Next() has returned false it is
\* the whole collection and Error() is nil.
C1_Ordering ==
    C1_Pre =>
        /\ IsPrefix(got, Items(0, Total(sizes)))
        /\ lastNext = "false" => (got = Items(0, Total(sizes)) /\ err = NoErr)
        /\ fault = NoFault

C1_Witness ==
    /\ C1_Pre /\ ~resumed
    /\ Len(sizes) >= 2 /\ Total(sizes) >= 3
    /\ lastNext = "false" /\ got = Items(0, Total(sizes))

-----------------------------------------------------------------------------
(* C2 *)

C2_Pre ==
    /\ resumed /\ base < Visible(sizes)
    /\ limit = 0 /\ failedAt = 0 /\ closes = 0

\* C2: an iterator built from the Cursor() taken right after the Next() that
\* delivered object x, x not being the last object, yields exactly the objects
\* that follow x, in order: what it returned so far is a prefix of them, and
\* once its Next() has returned false it is all of them.
C2_Resumption ==
    C2_Pre =>
        /\ IsPrefix(got, Items(base, Visible(sizes)))
        /\ lastNext = "false" => got = Items(base, Visible(sizes))
        /\ fault = NoFault /\ newErr = NoErr

\* Resumed in the middle of a page, run to the end over a page boundary.
C2_Witness ==
    /\ C2_Pre
    /\ FirstSkip > 0 /\ FirstPage < Len(sizes)
    /\ lastNext = "false" /\ got = Items(base, Visible(sizes))
    /\ Len(got) >= 2

-----------------------------------------------------------------------------
(* C3 *)

\* C3: Close() is safe at any point of the iterator's life, also while the
\* producer ends on its own: it never sends on the closed cancellation
\* channel.
C3_CloseSafe == fault # "send on closed channel"

-----------------------------------------------------------------------------
(* C4 *)

C4_Undisturbed ==
    /\ Visible(sizes) - StartOf >= limit
    /\ failedAt = 0 /\ closes = 0 /\ fault = NoFault

\* C4: with a limit L > 0 Next() returns true at most L times; the L objects
\* are the first L from the start; from then on Next() returns false without
\* receiving from the channel and Error() is nil; and when the collection holds
\* L objects, no fetch fails and Close() is not called, a false Next() means L
\* objects were returned.
C4_Limit ==
    (limit > 0 /\ newErr = NoErr) =>
        /\ Len(got) <= limit /\ count = Len(got)
        /\ count = limit =>
              /\ got = Items(StartOf, StartOf + limit)
              /\ cpc # "recv"
              /\ err = NoErr
        /\ (lastNext = "false" /\ C4_Undisturbed) => count = limit

\* The limit is reached with an object still queued, and Next() said false.
C4_Witness ==
    /\ limit > 0 /\ count = limit /\ C4_Undisturbed
    /\ lastNext = "false" /\ ch # <<>>
    /\ got = Items(0, limit)

-----------------------------------------------------------------------------
(* C5 *)

C5_Pre ==
    /\ given = <<>> /\ limit = 0 /\ closes = 0
    /\ failedAt >= 1

\* C5: when the fetch of page k fails for a fresh iterator without limit and
\* without Close(), the consumer gets the objects of the pages before k, then
\* false with Error() that failure; the producer fetches nothing more, does
\* not fault and ends with the delivery channel closed.
C5_FetchError ==
    C5_Pre =>
        /\ fetches = failedAt
        /\ ppc \notin {"loop", "getMoreObjects"}
        /\ IsPrefix(got, Items(0, Before(sizes, failedAt)))
        /\ lastNext = "false" =>
              (got = Items(0, Before(sizes, failedAt)) /\ err = FetchErr(failedAt))
        /\ fault = NoFault
        /\ ppc = "exit" => chClosed

C5_Witness ==
    /\ C5_Pre /\ failedAt = 2
    /\ lastNext = "false" /\ err = FetchErr(2)
    /\ got = Items(0, Before(sizes, 2))
    /\ ppc = "exit" /\ chClosed /\ fetches = 2

-----------------------------------------------------------------------------
(* C6 *)

\* C6: a Close() made after an earlier Close() returned, or after the
\* producer has ended, sends nothing on the cancellation channel, changes no
\* field of the iterator and returns at once without fault.
C6_CloseAgain ==
    [][(Close /\ (closes > 0 \/ ppc = "exit")) =>
          (/\ UNCHANGED <<itVars, prodVars, doneSends, fault>>
           /\ cpc' = "idle")]_vars

\* Two calls of Close(), the first of which handed its value to the producer.
C6_Witness ==
    /\ closes = 2 /\ doneSends = 1
    /\ cpc = "idle" /\ fault = NoFault /\ ppc = "exit"

-----------------------------------------------------------------------------
(* C7 *)

\* C7 as stated: decode(encode(p)) = p in both fields for every record p.
C7_RoundTripAny == phase = "decoded" => (~dec.err /\ dec.c = rec)

\* C7, amended: decode(encode(p)) = p for every record p whose link is
\* non-empty valid UTF-8 text; the token of a record with an empty link is the
\* empty string, and decoding the empty string gives the empty record
\* whatever the receiver held.
C7_RoundTrip ==
    /\ (phase # "start" /\ rec.Link = <<>>) => tok = <<>>
    /\ (phase # "start" /\ rec.Link # <<>>) => tok # <<>>
    /\ phase = "decoded" =>
          /\ ~dec.err
          /\ rec.Link = <<>> => dec.c = EmptyCursor
          /\ (rec.Link # <<>> /\ ValidUTF8(rec.Link)) => dec.c = rec

\* A link that needs escaping and a two-digit offset came back unchanged.
C7_Witness ==
    /\ phase = "decoded"
    /\ rec.Link = <<QUOTE, 38>> /\ rec.Offset >= 10
    /\ dec.c = rec /\ ~dec.err

-----------------------------------------------------------------------------
(* C8 *)

\* C8: once Close() has been called on an iterator built without a cursor,
\* the run does not come to a halt before the producer has closed the delivery
\* channel and a Next() has returned false; and Error() is nil as long as no
\* fetch failed.
C8_CloseThenFalse ==
    /\ (closes > 0 /\ given = <<>> /\ ~ENABLED Step) =>
          (chClosed /\ lastNext = "false")
    /\ failedAt = 0 => err = NoErr

-----------------------------------------------------------------------------
(* C9 *)

\* C9: the delivery channel never holds more than its 50 items; the producer
\* is about to fetch only when every object of the pages fetched so far has
\* been queued; and while the consumer has not called Next() it has fetched
\* no more pages than it takes to supply 50 + 1 objects.
C9_Backpressure ==
    /\ Len(ch) <= 50
    /\ (ppc = "getMoreObjects" /\ failedAt = 0 /\ fault = NoFault) =>
          sent = Supplied(fetches)
    /\ (~pulled /\ newErr = NoErr) => fetches <= PagesNeeded(50 + 1)

\* The channel is full, the producer sleeps on object 51, nothing was pulled.
C9_Witness ==
    /\ Len(ch) = 50 /\ sleeping /\ ~pulled
    /\ fetches = 2 /\ Len(sizes) = 3 /\ sent = 50

-----------------------------------------------------------------------------
(* C10 *)

\* C10: once a Next() has returned false, every later Next() on the iterator
\* returns false.
C10_FalseIsFinal == [][lastNext = "false" => lastNext' = "false"]_vars

\* A Next() called after the false that brought the fetch error is waiting.
C10_Witness ==
    /\ lastNext = "false" /\ err # NoErr
    /\ cpc = "recv"

-----------------------------------------------------------------------------
(* C11 *)

\* The iterator was built from the Cursor() taken after the last object of
\* the last page, a page whose next link is empty; no fetch fails and
\* Close() is not called.
C11_Pre ==
    /\ resumed /\ base = Total(sizes)
    /\ sizes[Len(sizes)] > 0
    /\ failedAt = 0 /\ closes = 0

\* C11: an iterator built WithCursor(the Cursor() taken after the final
\* object of the collection) stands after the last object: it delivers no
\* object, its Next() does not return true and Error() is nil.
C11_EndToken ==
    C11_Pre => (got = <<>> /\ lastNext # "true" /\ err = NoErr)

-----------------------------------------------------------------------------
(* C12 *)

\* A fresh iterator over a backend whose only page is empty, the fetch
\* succeeding and Close() not called.
C12_Pre ==
    /\ sizes = <<0>> /\ given = <<>> /\ ~resumed
    /\ failedAt = 0 /\ closes = 0

\* C12: over a backend whose first page is empty with an empty next link a
\* fresh iterator fetches once and no more, the producer then goes straight to
\* its shutdown, and Next() returns false with Error() nil and Get() nil: no
\* Next() returns true, the producer is back at its loop test or fetching
\* only before the first fetch, and once it has ended it made exactly one fetch
\* and closed both channels.
C12_EmptyCollection ==
    C12_Pre =>
        /\ fetches <= 1
        /\ ppc \in {"loop", "getMoreObjects"} => fetches = 0
        /\ fetches = 1 => ppc \in {"slice", "range", "setClosed", "closeCh",
                                   "closeDone", "exit"}
        /\ ppc = "exit" => (fetches = 1 /\ chClosed /\ done = "closed")
        /\ ch = <<>> /\ got = <<>> /\ next = 0 /\ err = NoErr
        /\ lastNext # "true"
        /\ cpc = "recv" => ENABLED NextRecv \/ ppc # "exit"
        /\ fault = NoFault

\* The first Next() has returned false after the producer ended.
C12_Witness ==
    /\ C12_Pre /\ limit = 0
    /\ lastNext = "false" /\ cpc = "idle" /\ ppc = "exit"
    /\ fetches = 1 /\ next = 0 /\ err = NoErr

-----------------------------------------------------------------------------
(* C13 *)

\* C13: newIterator given a non-empty cursor token that does not decode
\* returns the decode error and no iterator: no producer goroutine exists, no
\* page is fetched, nothing is ever queued and no step of an iterator can be
\* taken; and no error is returned for a token that decodes.
C13_DecodeFails ==
    /\ (given # <<>> /\ decode(EmptyCursor, given).err) <=> newErr = DecodeErr
    /\ newErr # NoErr =>
          /\ ppc = "none" /\ cpc = "none"
          /\ fetches = 0 /\ ch = <<>> /\ ~chClosed /\ done = "open"
          /\ ~ENABLED Step

\* Construction was given a Cursor() of an earlier iterator that had lost its
\* last character.
C13_Witness ==
    /\ given \notin {<<>>, Malformed, NotDeflate, NotJSON}
    /\ newErr = DecodeErr
    /\ ppc = "none" /\ cpc = "none" /\ fetches = 0

-----------------------------------------------------------------------------
(* C14 *)

\* The producer goroutine has ended: iterate returned, or it panicked.
ProducerStopped ==
    ppc = "exit" \/ fault \in {"slice bounds out of range", "close of closed channel"}

\* C14: however the producer stops, it has closed the delivery channel and
\* the cancellation channel, each once (a second close would panic) and after
\* its last send and its last fetch: a stopped producer has both channels
\* closed, and a channel is closed only when the producer is past every send
\* and fetch.
C14_ShutsDownOnce ==
    /\ ProducerStopped => (chClosed /\ done = "closed")
    /\ chClosed => ppc \in {"closeDone", "exit"}
    /\ done = "closed" => (ppc = "exit" /\ chClosed)
    /\ fault # "close of closed channel"

-----------------------------------------------------------------------------
(* C15 *)

\* C15: with a limit L > 0 the producer queues at most L objects over the
\* life of the iterator, whatever the size of the pages.
C15_ProducerLimit == (limit > 0 /\ newErr = NoErr) => sent <= limit

-----------------------------------------------------------------------------
(* C16 *)

\* C16: the producer of an iterator built from a cursor with an offset above
\* zero never panics at objects[skip:], neither after a failed first fetch
\* nor on a page with fewer objects than the offset.
C16_SkipNeverFaults ==
    (given # <<>> /\ newErr = NoErr /\ FirstSkip > 0) =>
        fault # "slice bounds out of range"

-----------------------------------------------------------------------------
(* C17 *)

\* The page that holds object o of the collection.
HomeOf(o) ==
    CHOOSE k \in 1..Len(sizes) : Before(sizes, k) < o /\ o <= Before(sizes, k + 1)

\* The Position Record the tagging rule gives object o: (next link of its page, 0)
\* for the last object of the page, else (self link of its page, its index in
\* the full page + 1).
TagOf(o) ==
    LET k == HomeOf(o)
        j == o - Before(sizes, k)
    IN  IF j = sizes[k]
        THEN [Link |-> LinksOf(sizes, k).Next, Offset |-> 0]
        ELSE [Link |-> URL(k), Offset |-> j]

\* C17: every object the producer sends or has queued carries the Position
\* Record of its place in the full page, also on a first page whose first
\* objects were skipped; Cursor() after a Next() that returned true is the
\* encoding of that record; and once the first page is done the skip is 0.
C17_Tagging ==
    /\ \A n \in 1..Len(ch) :
          ~ch[n].isErr => ch[n].cursor = TagOf(ch[n].object)
    /\ ppc = "sendObj" => item.cursor = TagOf(item.object)
    /\ lastNext = "true" => cursor = encode(TagOf(next))
    /\ (fetches >= 1 /\ ppc \in {"loop", "getMoreObjects"}) => skip = 0
    /\ fetches >= 2 => skip = 0

\* On a first page resumed in its middle, an object that is not the last of
\* the page is queued, and the last object of the page behind it.
C17_Witness ==
    /\ resumed /\ FirstSkip > 0 /\ fetches = 1 /\ Len(ch) >= 2
    /\ ch[1].cursor = [Link |-> URL(FirstPage), Offset |-> FirstSkip + 1]
    /\ ch[Len(ch)].cursor = [Link |-> LinksOf(sizes, FirstPage).Next, Offset |-> 0]
    /\ ch[Len(ch)].cursor.Link # <<>>

-----------------------------------------------------------------------------
(* C18 *)

\* The fields of Iterator the producer's next statement reads and writes.
ProducerReads ==
    IF ppc = "loop" THEN {"limit"}
    ELSE IF ppc \in {"getMoreObjects", "range"} THEN {"links"}
    ELSE {}

ProducerWrites ==
    IF ppc = "getMoreObjects" THEN {"links", "meta"}
    ELSE IF ppc = "setClosed" THEN {"closed"}
    ELSE {}

\* The fields the consumer reads and writes in the call it is in, or, between
\* two calls, in the call it may make next: Next(), Get(), Cursor(), Close(),
\* Meta(), Error().
ConsumerReads ==
    IF cpc = "idle"
    THEN {"limit", "count", "next", "cursor", "closed", "meta", "err"}
    ELSE IF cpc = "recv" THEN {"next"}
    ELSE {}

ConsumerWrites ==
    IF cpc = "idle" THEN {"closed"}
    ELSE IF cpc = "recv" THEN {"next", "cursor", "count", "err"}
    ELSE {}

\* The fields both goroutines are at, one of them writing, with no channel
\* operation between the two accesses.
Contended ==
    (ProducerWrites \cap (ConsumerReads \cup ConsumerWrites))
        \cup (ProducerReads \cap ConsumerWrites)

\* C18: in no state do the producer and the consumer access the same field
\* of the iterator with at least one of them writing and nothing ordering the
\* two accesses.
C18_NoSharedAccess == Running => Contended = {}

-----------------------------------------------------------------------------
(* C19 *)

\* C19: the send of Close() completes only in the producer's case <-it.done,
\* which queues nothing and takes the producer to its shutdown; and once a
\* Close() that made the send has returned, the producer is in its shutdown,
\* queues no object and no error and fetches nothing, so every further Next()
\* that returns true takes one of the at most 50 items queued before.
C19_CloseObserved ==
    [][/\ trySendStop =>
            /\ ch' = ch /\ fetches' = fetches
            /\ ppc' = "setClosed" /\ cpc' = "idle"
       /\ (doneSends > 0 /\ doneSends' > 0) =>
            /\ ppc' \in {"setClosed", "closeCh", "closeDone", "exit"}
            /\ fetches' = fetches
            /\ Len(ch') <= Len(ch) /\ Len(ch) <= 50
            /\ Len(got') + Len(ch') <= Len(got) + Len(ch)]_vars

\* Close() returned after its send while an object was on its way: the
\* producer has ended, the object is not queued, and the consumer has since
\* taken one of the objects queued before.
C19_Witness ==
    /\ doneSends = 1 /\ closes = 1 /\ cpc = "idle" /\ ppc = "exit"
    /\ fault = NoFault
    /\ lastNext = "true" /\ Len(ch) >= 1
    /\ ~item.isErr /\ item.object = ch[Len(ch)].object + 1
    /\ item.object > next + 1

-----------------------------------------------------------------------------
(* C20 *)

\* The Go scheduler runs the producer goroutine whenever it can take a step,
\* every fetch returns and every Sleep ends; nothing is asked of the consumer.
SpecFair == Init /\ [][Step]_vars /\ WF_vars(Producer)

\* C20: once the consumer has received its L > 0 objects, the producer
\* reaches the end of iterate with both channels closed, unless Close() is
\* called, the program panics or the consumer turns to a new iterator.
C20_ProducerEnds ==
    (limit > 0 /\ newErr = NoErr /\ count = limit)
        ~> \/ ppc = "exit" /\ chClosed /\ done = "closed"
           \/ closes > 0 \/ fault # NoFault
           \/ count < limit

=============================================================================
